---------------------------- MODULE Spec2Model ----------------------------
(***************************************************************************)
(* A model of the FPGA runtime's two session classes:                      *)
(*   - fpga::Instance                      (src/src/frt.cpp)               *)
(*   - fpga::internal::XilinxOpenclDevice  (src/src/frt/xilinx_opencl_device.cpp) *)
(* Three specifications share the variables:                               *)
(*   SpecParse  the container parser run on a bounded family of containers *)
(*   SpecCtor   session construction step by step (format check, parse,    *)
(*              emulation configuration, platform and device scan)         *)
(*   SpecPipe   the load / compute / store pipeline on an out-of-order     *)
(*              command queue, with the profiling queries                  *)
(***************************************************************************)
EXTENDS Integers, Sequences, FiniteSets, TLC

VARIABLES
    impl,                \* which session class is being constructed / driven
    binary,              \* the container blob handed to the constructor
    env0,                \* XCL_EMULATION_MODE before construction
    env,                 \* XCL_EMULATION_MODE now
    pc,                  \* position of the constructor
    err,                 \* the failure the constructor ended with ("none" if none)
    emconfig,            \* the emconfig command: has it run, and what system() returned
    arg_table_,          \* index -> ArgInfo
    target_device_name,
    vendor_name,
    kernel_names,
    kernel_arg_counts,
    enumerated,          \* cl::Platform::get has been called
    scan,                \* loop variables of the platform / device scan
    device_, context_, cmd_, program_, kernel_,
    skipped,             \* devices skipped with CL_DEVICE_NOT_AVAILABLE
    load_set, store_set, \* load_buffers_ / load_indices_, store_buffers_ / store_indices_
    buffer_table_,       \* index -> size in bytes of the buffer created for it
    load_event_, compute_event_, store_event_,
    events,              \* the command queue: event id -> command record
    clock,               \* the device's profiling clock
    hostpc,              \* position of the host in the pipeline cycle
    runs                 \* pipeline cycles started so far

ctorVars == <<impl, binary, env0, env, pc, err, emconfig, arg_table_, target_device_name,
              vendor_name, kernel_names, kernel_arg_counts, enumerated, scan,
              device_, context_, cmd_, program_, kernel_, skipped>>
pipeVars == <<load_set, store_set, buffer_table_, load_event_, compute_event_,
              store_event_, events, clock, hostpc, runs>>
vars == <<ctorVars, pipeVars>>

---------------------------------------------------------------------------
(* Bounds of the model *)

MaxKernels == 2
MaxArgs == 2
MaxRegions == 2
MaxEdges == 2
MaxPlatforms == 2
MaxDevices == 2
MaxBufArgs == 2
MaxRuns == 2

(* Program constants *)

MagicLen == 8

---------------------------------------------------------------------------
(* Helpers *)

Classes == {"Instance", "XilinxOpenclDevice"}

Range(s) == {s[i] : i \in DOMAIN s}

SeqsUpTo(S, n) == UNION {[1..k -> S] : k \in 0..n}

Put(f, k, v) == [x \in (DOMAIN f) \cup {k} |-> IF x = k THEN v ELSE f[x]]

EmptyMap == [x \in {} |-> 0]

RECURSIVE SumSeq(_)
SumSeq(s) == IF s = <<>> THEN 0 ELSE Head(s) + SumSeq(Tail(s))

---------------------------------------------------------------------------
(* The process environment variable XCL_EMULATION_MODE *)

Unset == "unset"
EnvValues == {Unset, "hw_emu", "sw_emu"}

\* setenv(name, value, overwrite) on the one variable the parser writes
Setenv(e, value, overwrite) ==
    IF e = Unset \/ overwrite # 0 THEN value ELSE e

---------------------------------------------------------------------------
(* Containers *)

Signature == <<"x", "c", "l", "b", "i", "n", "2", "NUL">>

KnownModes == {"XCLBIN_FLAT", "XCLBIN_PR", "XCLBIN_TANDEM_STAGE2",
               "XCLBIN_TANDEM_STAGE2_WITH_PR", "XCLBIN_HW_EMU", "XCLBIN_SW_EMU"}
Modes == KnownModes \cup {"XCLBIN_MODE_MAX"}

Targets == {"hw", "hw_em", "csim", "bitstream"}

PlatformVBNV == "xilinx_u250_xdma_201830_2"

\* addressQualifier codes: 0, 1 and 4 are known, 2 stands for every other code
Qualifiers == {0, 1, 4, 2}

\* the j-th <arg> of the k-th <kernel>; its name attribute identifies the declaration
Arg(k, j, id, aq) == [id |-> id, name |-> <<k, j>>, type |-> "T", aq |-> aq]

Kernel(k, ids) ==
    [name |-> <<"kernel", k>>,
     args |-> [j \in 1..Len(ids) |-> Arg(k, j, ids[j], 1)]]

IdLists == SeqsUpTo(0..(MaxArgs - 1), MaxArgs)

\* the kernel list whose k-th kernel declares the arguments with the ids idss[k]
KernelList(idss) == [k \in 1..Len(idss) |-> Kernel(k, idss[k])]

\* a memory topology: region i (0-based) carries the tag BankNames[i + 1] and
\* its used flag
BankNames == <<"bank0", "bank1", "bank2", "bank3">>
Topologies ==
    UNION {{[i \in 1..n |-> [used |-> u[i], tag |-> BankNames[i]]] : u \in [1..n -> BOOLEAN]}
           : n \in 0..MaxRegions}

Edges == [arg_index : 0..MaxArgs, mem_data_index : 0..(MaxRegions - 1)]
Connectivities == SeqsUpTo(Edges, MaxEdges)

\* one kernel "vadd" with two memory-mapped arguments in bank0 / bank1 and a scalar
VaddKernels(aq) ==
    << [name |-> <<"kernel", 1>>,
        args |-> <<Arg(1, 1, 0, 1), Arg(1, 2, 1, 1), Arg(1, 3, 2, aq)>>] >>
VaddTopology == << [used |-> TRUE, tag |-> "bank0"], [used |-> TRUE, tag |-> "bank1"] >>
VaddConnectivity == << [arg_index |-> 0, mem_data_index |-> 0],
                       [arg_index |-> 1, mem_data_index |-> 1] >>

Container(magic, mode, meta, target, kernels, topo, conn) ==
    [magic |-> magic, mode |-> mode, vbnv |-> PlatformVBNV, meta |-> meta,
     target |-> target, kernels |-> kernels, topo |-> topo, conn |-> conn]

\* every header mode, with and without metadata, every target string, every
\* addressQualifier code on the third argument
HeaderFamily ==
    {Container(Signature, m, meta, t, VaddKernels(aq), VaddTopology, VaddConnectivity)
       : m \in Modes, meta \in BOOLEAN, t \in Targets, aq \in Qualifiers}

\* a container of the kernel family: up to MaxKernels kernels, each with up to
\* MaxArgs arguments of any ids
KernelContainer(idss) ==
    Container(Signature, "XCLBIN_FLAT", TRUE, "hw", KernelList(idss), <<>>, <<>>)

\* a container of the connectivity family: any memory topology and any
\* connectivity over a two-argument kernel
ConnContainer(topo, conn) ==
    Container(Signature, "XCLBIN_FLAT", TRUE, "hw",
              << [name |-> <<"kernel", 1>>,
                  args |-> <<Arg(1, 1, 0, 1), Arg(1, 2, 1, 0)>>] >>, topo, conn)

\* blobs whose first bytes are not the signature: every proper prefix of it,
\* the signature with one byte changed, and the "notxcl1" blob
BadMagics ==
    {SubSeq(Signature, 1, n) : n \in 0..(MagicLen - 1)}
      \cup {[Signature EXCEPT ![i] = "?"] : i \in 1..MagicLen}
      \cup {[Signature EXCEPT ![i] = "?"] \o <<"d">> : i \in 1..MagicLen}
      \cup {<<"n", "o", "t", "x", "c", "l", "1", "NUL">>}

BadFamily ==
    {Container(mg, "XCLBIN_FLAT", TRUE, "hw", VaddKernels(0), VaddTopology,
               VaddConnectivity) : mg \in BadMagics}

---------------------------------------------------------------------------
(* The argument table *)

\* a value-initialised ArgInfo, as unordered_map::operator[] inserts it
DefaultArg == [index |-> 0, name |-> <<>>, type |-> "", cat |-> "unset", tag |-> ""]

\* switch (cat): 0, 1 and 4 set the category, any other code leaves it as it was
Cat(aq, old) ==
    CASE aq = 0 -> "kScalar"
      [] aq = 1 -> "kMmap"
      [] aq = 4 -> "kStream"
      [] OTHER  -> old

Entry(table, index) == IF index \in DOMAIN table THEN table[index] ELSE DefaultArg

---------------------------------------------------------------------------
(* Instance::Instance, the parser (frt.cpp) *)

InstanceHeaderMode(e, mode) ==
    CASE mode = "XCLBIN_HW_EMU" -> Setenv(e, "hw_emu", 0)
      [] mode = "XCLBIN_SW_EMU" -> Setenv(e, "sw_emu", 0)
      [] OTHER                  -> e

\* the metadata step written with setenv's overwrite flag set
InstanceMetaModeOverwrite(e, target_meta) ==
    IF target_meta = "hw_em" THEN Setenv(e, "hw_emu", 1)
    ELSE IF target_meta = "csim" THEN Setenv(e, "sw_emu", 1)
    ELSE e

InstanceMetaMode(e, target_meta) ==
    IF target_meta = "hw_em" THEN Setenv(e, "hw_emu", 0)
    ELSE IF target_meta = "csim" THEN Setenv(e, "sw_emu", 0)
    ELSE e

\* index = atoi(id); arg_table_[index] is created or reused
InstanceArgIndex(arg, position) == arg.id

RECURSIVE InstanceArgs(_, _, _)
InstanceArgs(table, args, j) ==
    IF j > Len(args) THEN table
    ELSE LET index == InstanceArgIndex(args[j], j)
             old   == Entry(table, index)
             new   == [old EXCEPT !.index = index, !.name = args[j].name,
                                  !.type = args[j].type, !.cat = Cat(args[j].aq, old.cat)]
         IN  InstanceArgs(Put(table, index, new), args, j + 1)

\* memory_table[i] = m_tag for every used region i (0-based)
RECURSIVE MemoryTable(_, _, _)
MemoryTable(mt, topo, i) ==
    IF i >= Len(topo) THEN mt
    ELSE MemoryTable(IF topo[i + 1].used THEN Put(mt, i, topo[i + 1].tag) ELSE mt,
                     topo, i + 1)

\* memory_table[k] of an absent key is a new empty string
MemoryTag(mt, k) == IF k \in DOMAIN mt THEN mt[k] ELSE ""

\* a connectivity loop that keeps the tag an earlier edge has set
RECURSIVE InstanceConnFirstWins(_, _, _, _)
InstanceConnFirstWins(table, mt, conn, i) ==
    IF i > Len(conn) THEN table
    ELSE LET c   == conn[i]
             old == Entry(table, c.arg_index)
             new == IF old.tag # "" THEN old
                    ELSE [old EXCEPT !.tag = MemoryTag(mt, c.mem_data_index)]
         IN  InstanceConnFirstWins(Put(table, c.arg_index, new), mt, conn, i + 1)

\* arg_table_[c.arg_index].tag = memory_table[c.mem_data_index], in input order
RECURSIVE InstanceConn(_, _, _, _)
InstanceConn(table, mt, conn, i) ==
    IF i > Len(conn) THEN table
    ELSE LET c   == conn[i]
             new == [Entry(table, c.arg_index) EXCEPT !.tag = MemoryTag(mt, c.mem_data_index)]
         IN  InstanceConn(Put(table, c.arg_index, new), mt, conn, i + 1)

ParseFailure(error, e) ==
    [ok |-> FALSE, err |-> error, env |-> e, arg_table |-> EmptyMap,
     target_device_name |-> "", vendor_name |-> "", kernel_names |-> <<>>,
     kernel_arg_counts |-> <<>>]

ParseInstance(c, e) ==
    IF c.mode \notin KnownModes THEN ParseFailure("UnknownMode", e)
    ELSE LET e1 == InstanceHeaderMode(e, c.mode) IN
         IF ~c.meta THEN ParseFailure("MissingMetadata", e1)
         ELSE LET xml_kernel == c.kernels[1]
                  table1 == InstanceArgs(EmptyMap, xml_kernel.args, 1)
                  e2     == InstanceMetaMode(e1, c.target)
                  mt     == MemoryTable(EmptyMap, c.topo, 0)
                  table2 == InstanceConn(table1, mt, c.conn, 1)
              IN  [ok |-> TRUE, err |-> "none", env |-> e2, arg_table |-> table2,
                   target_device_name |-> c.vbnv, vendor_name |-> "Xilinx",
                   kernel_names |-> <<xml_kernel.name>>, kernel_arg_counts |-> <<>>]

---------------------------------------------------------------------------
(* XilinxOpenclDevice::XilinxOpenclDevice, the parser (xilinx_opencl_device.cpp) *)

XilinxHeaderMode(e, mode) ==
    CASE mode = "XCLBIN_HW_EMU" -> Setenv(e, "hw_emu", 0)
      [] mode = "XCLBIN_SW_EMU" -> Setenv(e, "sw_emu", 0)
      [] OTHER                  -> e

XilinxMetaMode(e, target_meta) ==
    IF target_meta = "hw_em" THEN Setenv(e, "hw_emu", 0)
    ELSE IF target_meta = "csim" THEN Setenv(e, "sw_emu", 0)
    ELSE e

\* the index of the next <arg> is the running count arg_count
XilinxArgIndex(arg, arg_count) == arg_count

\* st = [table, arg_count, names, counts]
RECURSIVE XilinxArgs(_, _, _)
XilinxArgs(st, args, j) ==
    IF j > Len(args) THEN st
    ELSE LET index == XilinxArgIndex(args[j], st.arg_count)
             old   == Entry(st.table, index)
             new   == [old EXCEPT !.index = index, !.name = args[j].name,
                                  !.type = args[j].type, !.cat = Cat(args[j].aq, old.cat)]
         IN  XilinxArgs([st EXCEPT !.table = Put(st.table, index, new),
                                   !.arg_count = st.arg_count + 1], args, j + 1)

RECURSIVE XilinxKernels(_, _, _)
XilinxKernels(st, kernels, k) ==
    IF k > Len(kernels) THEN st
    ELSE LET st1 == [st EXCEPT !.names = Append(st.names, kernels[k].name),
                               !.counts = Append(st.counts, st.arg_count)]
         IN  XilinxKernels(XilinxArgs(st1, kernels[k].args, 1), kernels, k + 1)

ParseXilinx(c, e) ==
    IF c.mode \notin KnownModes THEN ParseFailure("UnknownMode", e)
    ELSE LET e1 == XilinxHeaderMode(e, c.mode) IN
         IF ~c.meta THEN ParseFailure("MissingMetadata", e1)
         ELSE LET st == XilinxKernels([table |-> EmptyMap, arg_count |-> 0,
                                       names |-> <<>>, counts |-> <<>>], c.kernels, 1)
                  e2 == XilinxMetaMode(e1, c.target)
              IN  [ok |-> TRUE, err |-> "none", env |-> e2, arg_table |-> st.table,
                   target_device_name |-> c.vbnv, vendor_name |-> "Xilinx",
                   kernel_names |-> st.names, kernel_arg_counts |-> st.counts]

Parse(class, c, e) ==
    IF class = "Instance" THEN ParseInstance(c, e) ELSE ParseXilinx(c, e)

---------------------------------------------------------------------------
(* Construction, step by step *)

\* the signature test without the size test: the bytes present are compared
InstanceMagicOkNoSize(bytes) ==
    \A i \in 1..MagicLen : i > Len(bytes) \/ bytes[i] = Signature[i]

\* binary.size() >= 8 && memcmp(binary.data(), "xclbin2", 8) == 0
InstanceMagicOk(bytes) ==
    Len(bytes) >= MagicLen /\ SubSeq(bytes, 1, MagicLen) = Signature

\* !(binaries.begin()->size() < 8 || memcmp(binaries.begin()->data(), "xclbin2", 8) != 0)
\* (the constructor is handed exactly one binary, as LoadBinaryFile produces it)
XilinxMagicOk(bytes) ==
    ~(Len(bytes) < MagicLen \/ SubSeq(bytes, 1, MagicLen) # Signature)

MagicOk(class, bytes) ==
    IF class = "Instance" THEN InstanceMagicOk(bytes) ELSE XilinxMagicOk(bytes)

NoDevice == <<>>
NoHandle == [dev |-> NoDevice, valid |-> FALSE]
Handle(d, ok) == [dev |-> d, valid |-> ok]

\* the emconfig.json check / emconfigutil command has not run
NotRun == [ran |-> FALSE, status |-> 0]

ScanInit == [nPlatforms |-> 0, pi |-> 0, nDevices |-> 0, di |-> 0,
             seenTarget |-> FALSE, firstOk |-> NoDevice, last |-> NoDevice]

PipeIdle ==
    /\ load_set = {} /\ store_set = {} /\ buffer_table_ = EmptyMap
    /\ load_event_ = <<>> /\ compute_event_ = <<>> /\ store_event_ = <<>>
    /\ events = EmptyMap /\ clock = 0 /\ hostpc = "Idle" /\ runs = 0

CtorInit(class, c, e) ==
    /\ impl = class /\ binary = c /\ env0 = e /\ env = e
    /\ pc = "new" /\ err = "none" /\ emconfig = NotRun
    /\ arg_table_ = EmptyMap
    /\ target_device_name = "" /\ vendor_name = ""
    /\ kernel_names = <<>> /\ kernel_arg_counts = <<>>
    /\ enumerated = FALSE /\ scan = ScanInit
    /\ device_ = NoDevice /\ context_ = NoHandle /\ cmd_ = NoHandle
    /\ program_ = NoHandle /\ kernel_ = NoHandle
    /\ skipped = {}

scanVars == <<enumerated, scan, device_, context_, cmd_, program_, kernel_, skipped>>
parseVars == <<arg_table_, target_device_name, vendor_name, kernel_names,
               kernel_arg_counts>>

\* the blob does not start with the signature: Instance throws "unexpected
\* bitstream file", XilinxOpenclDevice::New returns nullptr
RejectFormat ==
    /\ pc = "new"
    /\ ~MagicOk(impl, binary.magic)
    /\ pc' = "failed"
    /\ err' = "UnsupportedFormat"
    /\ UNCHANGED <<impl, binary, env0, emconfig, env, parseVars, scanVars, pipeVars>>

ParseContainer ==
    /\ pc = "new"
    /\ MagicOk(impl, binary.magic)
    /\ LET r == Parse(impl, binary, env) IN
         /\ env' = r.env
         /\ arg_table_' = r.arg_table
         /\ target_device_name' = r.target_device_name
         /\ vendor_name' = r.vendor_name
         /\ kernel_names' = r.kernel_names
         /\ kernel_arg_counts' = r.kernel_arg_counts
         /\ pc' = IF r.ok THEN "parsed" ELSE "failed"
         /\ err' = r.err
    /\ UNCHANGED <<impl, binary, env0, emconfig, scanVars, pipeVars>>

InitParse ==
    /\ \E class \in Classes :
         \/ \E c \in HeaderFamily, e \in EnvValues : CtorInit(class, c, e)
         \/ \E n \in 1..MaxKernels : \E idss \in [1..n -> IdLists] :
               CtorInit(class, KernelContainer(idss), Unset)
         \/ \E topo \in Topologies, conn \in Connectivities :
               CtorInit(class, ConnContainer(topo, conn), Unset)
    /\ PipeIdle

NextParse == ParseContainer

SpecParse == InitParse /\ [][NextParse]_vars

---------------------------------------------------------------------------
(* Emulation configuration, after the parse *)

\* Instance: if (system(cmd)) throw runtime_error("emconfigutil failed")
InstanceEmconfig(status) ==
    IF status # 0 THEN "emconfigutil failed" ELSE "none"

\* XilinxOpenclDevice: if (system(cmd)) LOG(WARNING) << "emconfigutil failed"
XilinxEmconfig(status) == "none"

\* XCL_EMULATION_MODE is unset: nothing to configure
EmulationSkip ==
    /\ pc = "parsed"
    /\ env = Unset
    /\ pc' = IF impl = "Instance" THEN "enumerate" ELSE "initialize"
    /\ UNCHANGED <<impl, binary, env0, emconfig, env, err, parseVars, scanVars, pipeVars>>

\* XCL_EMULATION_MODE is set: the emconfig.json check / emconfigutil command runs
\* (status is what system() returns); XilinxOpenclDevice first creates its
\* per-user directory (mkdirOk), Instance in sw_emu then runs the toolchain
\* scripts through popen (popenOk)
EmulationSetup ==
    /\ pc = "parsed"
    /\ env # Unset
    /\ \E status \in {0, 1}, mkdirOk \in BOOLEAN, popenOk \in BOOLEAN :
         LET e == IF impl = "Instance"
                  THEN IF InstanceEmconfig(status) # "none" THEN InstanceEmconfig(status)
                       ELSE IF env = "sw_emu" /\ ~popenOk THEN "cannot execute"
                       ELSE "none"
                  ELSE IF ~mkdirOk THEN "cannot create FRT tmpdir"
                       ELSE XilinxEmconfig(status)
         IN  /\ err' = e
             /\ pc' = IF e # "none" THEN "failed"
                      ELSE IF impl = "Instance" THEN "enumerate" ELSE "initialize"
             \* LOG(FATAL) on the directory ends XilinxOpenclDevice before the command
             /\ emconfig' = IF impl = "XilinxOpenclDevice" /\ ~mkdirOk THEN NotRun
                             ELSE [ran |-> TRUE, status |-> status]
    /\ UNCHANGED <<impl, binary, env0, env, parseVars, scanVars, pipeVars>>

---------------------------------------------------------------------------
(* Instance::Instance, the platform and device scan (frt.cpp) *)

PlatformNames == {"Xilinx", "Intel(R) FPGA SDK for OpenCL(TM)"}
DeviceNames == {PlatformVBNV, "xilinx_u200_xdma_201830_2"}
ClStatus == {"CL_SUCCESS", "CL_DEVICE_NOT_AVAILABLE", "CL_OUT_OF_HOST_MEMORY"}

\* CL_CHECK(cl::Platform::get(&platforms))
GetPlatforms ==
    /\ pc = "enumerate"
    /\ enumerated' = TRUE
    /\ \E status \in {"CL_SUCCESS", "CL_OUT_OF_HOST_MEMORY"}, n \in 0..MaxPlatforms :
         IF status # "CL_SUCCESS"
         THEN /\ pc' = "failed" /\ err' = status /\ scan' = scan
         ELSE /\ pc' = "platforms" /\ err' = err
              /\ scan' = [scan EXCEPT !.nPlatforms = n, !.pi = 0]
    /\ UNCHANGED <<impl, binary, env0, emconfig, env, parseVars, device_, context_, cmd_,
                   program_, kernel_, skipped, pipeVars>>

\* the platform loop is over: the constructor returns (line 234)
ScanReturn ==
    /\ pc = "platforms"
    /\ scan.pi = scan.nPlatforms
    /\ pc' = "returned"
    /\ UNCHANGED <<impl, binary, env0, emconfig, env, err, parseVars, scanVars, pipeVars>>

\* one iteration of the platform loop up to the device loop: the platform's
\* name is read and, if it is the vendor's, its accelerator devices are listed
NextPlatform ==
    /\ pc = "platforms"
    /\ scan.pi < scan.nPlatforms
    /\ \E platformName \in PlatformNames, n \in 0..MaxDevices :
         IF platformName = vendor_name
         THEN /\ pc' = "devices"
              /\ scan' = [scan EXCEPT !.nDevices = n, !.di = 0]
         ELSE /\ pc' = "platforms"
              /\ scan' = [scan EXCEPT !.pi = scan.pi + 1]
    /\ UNCHANGED <<impl, binary, env0, emconfig, env, err, parseVars, enumerated, device_,
                   context_, cmd_, program_, kernel_, skipped, pipeVars>>

\* a platform or device query fails: CL_CHECK ends the construction
QueryFails ==
    /\ pc \in {"platforms", "devices"}
    /\ IF pc = "platforms" THEN scan.pi < scan.nPlatforms ELSE scan.di < scan.nDevices
    /\ pc' = "failed"
    /\ err' = "CL_OUT_OF_HOST_MEMORY"
    /\ UNCHANGED <<impl, binary, env0, emconfig, env, parseVars, scanVars, pipeVars>>

\* the device loop of this platform is over: on to the next platform
DevicesDone ==
    /\ pc = "devices"
    /\ scan.di = scan.nDevices
    /\ pc' = "platforms"
    /\ scan' = [scan EXCEPT !.pi = scan.pi + 1]
    /\ UNCHANGED <<impl, binary, env0, emconfig, env, err, parseVars, enumerated, device_,
                   context_, cmd_, program_, kernel_, skipped, pipeVars>>

\* the scan with CL_CHECK(err) placed before the CL_DEVICE_NOT_AVAILABLE test
ContextOutcomeStrict(status) ==
    IF status = "CL_SUCCESS" THEN "bind" ELSE "fail"

\* what the scan does with the status of cl::Context(device, ...): continue with
\* the next device, go on binding this one, or fail in CL_CHECK
ContextOutcome(status) ==
    IF status = "CL_DEVICE_NOT_AVAILABLE" THEN "continue"
    ELSE IF status = "CL_SUCCESS" THEN "bind"
    ELSE "fail"

\* after the kernel has been created on the device: return, ending the scan
AfterBind(s) == "returned"

\* one iteration of the device loop; stage is the first call that fails
\* ("none": all succeed) among the command queue, the program and the kernel
NextDevice ==
    /\ pc = "devices"
    /\ scan.di < scan.nDevices
    /\ \E device_name \in DeviceNames, status \in ClStatus,
          stage \in {"none", "queue", "program", "kernel"} :
         LET d == <<scan.pi, scan.di>>
             s1 == [scan EXCEPT !.last = d] IN
         IF device_name # target_device_name
         THEN /\ scan' = [s1 EXCEPT !.di = scan.di + 1]
              /\ UNCHANGED <<pc, err, device_, context_, cmd_, program_, kernel_, skipped>>
         ELSE /\ device_' = d
              /\ context_' = Handle(d, status = "CL_SUCCESS")
              /\ CASE ContextOutcome(status) = "continue" ->
                        /\ scan' = [s1 EXCEPT !.di = scan.di + 1, !.seenTarget = TRUE]
                        /\ skipped' = skipped \cup {d}
                        /\ UNCHANGED <<pc, err, cmd_, program_, kernel_>>
                   [] ContextOutcome(status) = "fail" ->
                        /\ scan' = [s1 EXCEPT !.seenTarget = TRUE]
                        /\ pc' = "failed" /\ err' = status
                        /\ UNCHANGED <<cmd_, program_, kernel_, skipped>>
                   [] OTHER ->
                        LET s2 == [s1 EXCEPT !.seenTarget = TRUE,
                                             !.firstOk = IF scan.firstOk = NoDevice /\ status = "CL_SUCCESS"
                                                         THEN d ELSE scan.firstOk] IN
                        /\ cmd_' = Handle(d, stage # "queue")
                        /\ program_' = IF stage = "queue" THEN program_
                                       ELSE Handle(d, stage # "program")
                        /\ kernel_' = IF stage \in {"queue", "program"} THEN kernel_
                                      ELSE Handle(d, stage # "kernel")
                        /\ skipped' = skipped
                        /\ IF stage # "none"
                           THEN /\ pc' = "failed" /\ err' = "CL_OUT_OF_HOST_MEMORY"
                                /\ scan' = s2
                           ELSE /\ pc' = AfterBind(s2) /\ err' = err
                                /\ scan' = IF AfterBind(s2) = "returned" THEN s2
                                           ELSE [s2 EXCEPT !.di = scan.di + 1]
    /\ UNCHANGED <<impl, binary, env0, emconfig, env, parseVars, enumerated, pipeVars>>

\* the containers a construction is run on: every header, and every bad blob
CtorFamily ==
    {c \in HeaderFamily : c.kernels = VaddKernels(0)} \cup BadFamily

InitCtor ==
    /\ \E class \in Classes, c \in CtorFamily, e \in EnvValues : CtorInit(class, c, e)
    /\ PipeIdle

NextCtor ==
    \/ RejectFormat
    \/ ParseContainer
    \/ EmulationSkip
    \/ EmulationSetup
    \/ GetPlatforms
    \/ ScanReturn
    \/ NextPlatform
    \/ QueryFails
    \/ DevicesDone
    \/ NextDevice

SpecCtor == InitCtor /\ [][NextCtor]_vars

---------------------------------------------------------------------------
(* The command queue: out of order, with profiling *)

\* a command enters the queue with its wait list; the returned event is named
\* after the pipeline cycle that enqueued it and its kind (a cycle enqueues at
\* most one command of each kind)
Enqueue(q, t, kind, wait, run) ==
    LET id == <<run, kind>> IN
    [id |-> id, clock |-> t + 1,
     events |-> Put(q, id, [kind |-> kind, deps |-> wait, state |-> "queued",
                            queued |-> t + 1, submit |-> 0, start |-> 0, end |-> 0,
                            run |-> run])]

\* an event is released once the session holds it no more and its command is
\* complete (cl::Event's destructor)
Retain(q, held) ==
    [id \in {x \in DOMAIN q : x \in held \/ q[x].state # "complete"} |-> q[id]]

\* an event of a wait list that has been released is complete
Complete(id) == id \notin DOMAIN events \/ events[id].state = "complete"

\* a queued command may start once every event of its wait list is complete,
\* whatever the order of enqueueing
Ready(id) ==
    /\ events[id].state = "queued"
    /\ \A d \in events[id].deps : Complete(d)

DeviceStart ==
    /\ \E id \in DOMAIN events :
         /\ Ready(id)
         /\ events' = [events EXCEPT ![id].state = "running",
                                     ![id].submit = clock + 1,
                                     ![id].start = clock + 1]
    /\ clock' = clock + 1
    /\ UNCHANGED <<ctorVars, load_set, store_set, buffer_table_, load_event_,
                   compute_event_, store_event_, hostpc, runs>>

DeviceComplete ==
    /\ \E id \in DOMAIN events :
         /\ events[id].state = "running"
         /\ events' = [events EXCEPT ![id].state = "complete", ![id].end = clock + 1]
    /\ clock' = clock + 1
    /\ UNCHANGED <<ctorVars, load_set, store_set, buffer_table_, load_event_,
                   compute_event_, store_event_, hostpc, runs>>

---------------------------------------------------------------------------
(* Buffers *)

BufIndices == 0..(MaxBufArgs - 1)
BufSizes == {4096}
Tags == {"kPlaceHolder", "kReadOnly", "kWriteOnly", "kReadWrite"}

\* a buffer argument is set: the direction flags decide its membership of the
\* load set and of the store set
SetBufferArg ==
    /\ hostpc \in {"Idle", "Done"}
    /\ \E index \in BufIndices, tag \in Tags, size \in BufSizes :
         /\ buffer_table_' = Put(buffer_table_, index, size)
         /\ load_set' = IF tag \in {"kReadOnly", "kReadWrite"}
                        THEN load_set \cup {index} ELSE load_set \ {index}
         /\ store_set' = IF tag \in {"kWriteOnly", "kReadWrite"}
                         THEN store_set \cup {index} ELSE store_set \ {index}
    /\ hostpc' = "Idle"
    /\ UNCHANGED <<ctorVars, load_event_, compute_event_, store_event_, events,
                   clock, runs>>

---------------------------------------------------------------------------
(* The pipeline *)

Step(event, q, t) == [event |-> event, events |-> q, clock |-> t]

\* WriteToDevice that captures the completion event only when none is held
InstanceWriteToDeviceKeepEvent(ls, le, q, t, run) ==
    IF ls # {}
    THEN LET r == Enqueue(q, t, "load", {}, run) IN
         Step(IF le = <<>> THEN <<r.id>> ELSE le, r.events, r.clock)
    ELSE Step(le, q, t)

\* Instance::WriteToDevice
InstanceWriteToDevice(ls, le, q, t, run) ==
    IF ls # {}
    THEN LET r == Enqueue(q, t, "load", {}, run) IN Step(<<r.id>>, r.events, r.clock)
    ELSE Step(le, q, t)

\* XilinxOpenclDevice::WriteToDevice
XilinxWriteToDevice(ls, le, q, t, run) ==
    IF ls # {}
    THEN LET r == Enqueue(q, t, "load", {}, run) IN Step(<<r.id>>, r.events, r.clock)
    ELSE Step(<<>>, q, t)

\* Instance::ReadFromDevice
InstanceReadFromDevice(ss, se, ce, q, t, run) ==
    IF ss # {}
    THEN LET r == Enqueue(q, t, "store", Range(ce), run) IN Step(<<r.id>>, r.events, r.clock)
    ELSE Step(se, q, t)

\* XilinxOpenclDevice::ReadFromDevice
XilinxReadFromDevice(ss, se, ce, q, t, run) ==
    IF ss # {}
    THEN LET r == Enqueue(q, t, "store", Range(ce), run) IN Step(<<r.id>>, r.events, r.clock)
    ELSE Step(<<>>, q, t)

\* Exec that passes no wait list to enqueueNDRangeKernel
InstanceExecNoWait(le, q, t, run) ==
    LET r == Enqueue(q, t, "compute", {}, run) IN Step(<<r.id>>, r.events, r.clock)

\* Instance::Exec
InstanceExec(le, q, t, run) ==
    LET r == Enqueue(q, t, "compute", Range(le), run) IN Step(<<r.id>>, r.events, r.clock)

\* OpenclDevice::Exec, which XilinxOpenclDevice inherits
OpenclDeviceExec(le, q, t, run) == InstanceExec(le, q, t, run)

WriteToDevice ==
    /\ hostpc \in {"Idle", "Done"}
    /\ runs < MaxRuns
    /\ runs' = runs + 1
    /\ LET r == IF impl = "Instance"
                THEN InstanceWriteToDevice(load_set, load_event_, events, clock, runs + 1)
                ELSE XilinxWriteToDevice(load_set, load_event_, events, clock, runs + 1)
       IN  /\ load_event_' = r.event
           /\ events' = Retain(r.events, Range(r.event) \cup Range(compute_event_)
                                            \cup Range(store_event_))
           /\ clock' = r.clock
    /\ hostpc' = "Loaded"
    /\ UNCHANGED <<ctorVars, load_set, store_set, buffer_table_, compute_event_,
                   store_event_>>

Exec ==
    /\ hostpc = "Loaded"
    /\ LET r == IF impl = "Instance"
                THEN InstanceExec(load_event_, events, clock, runs)
                ELSE OpenclDeviceExec(load_event_, events, clock, runs)
       IN  /\ compute_event_' = r.event
           /\ events' = Retain(r.events, Range(load_event_) \cup Range(r.event)
                                            \cup Range(store_event_))
           /\ clock' = r.clock
    /\ hostpc' = "Computed"
    /\ UNCHANGED <<ctorVars, load_set, store_set, buffer_table_, load_event_,
                   store_event_, runs>>

ReadFromDevice ==
    /\ hostpc = "Computed"
    /\ LET r == IF impl = "Instance"
                THEN InstanceReadFromDevice(store_set, store_event_, compute_event_,
                                            events, clock, runs)
                ELSE XilinxReadFromDevice(store_set, store_event_, compute_event_,
                                          events, clock, runs)
       IN  /\ store_event_' = r.event
           /\ events' = Retain(r.events, Range(load_event_) \cup Range(compute_event_)
                                            \cup Range(r.event))
           /\ clock' = r.clock
    /\ hostpc' = "Stored"
    /\ UNCHANGED <<ctorVars, load_set, store_set, buffer_table_, load_event_,
                   compute_event_, runs>>

\* cmd_.flush(); cmd_.finish(): returns once every enqueued command is complete
Finish ==
    /\ hostpc = "Stored"
    /\ \A id \in DOMAIN events : events[id].state = "complete"
    /\ hostpc' = "Done"
    /\ UNCHANGED <<ctorVars, load_set, store_set, buffer_table_, load_event_,
                   compute_event_, store_event_, events, clock, runs>>

---------------------------------------------------------------------------
(* Profiling *)

Value(v) == [ok |-> TRUE, val |-> v]
ClError == [ok |-> FALSE, val |-> 0]

\* event.getProfilingInfo<name>(&err); CL_CHECK(err): the timestamps of a
\* command are available once it is complete
ProfilingInfo(name, id) ==
    IF events[id].state = "complete" THEN Value(events[id][name]) ELSE ClError

LoadProfilingInfo(name) ==
    IF load_event_ = <<>> THEN Value(0) ELSE ProfilingInfo(name, load_event_[1])

ComputeProfilingInfo(name) ==
    IF compute_event_ = <<>> THEN Value(0) ELSE ProfilingInfo(name, compute_event_[1])

StoreProfilingInfo(name) ==
    IF store_event_ = <<>> THEN Value(0) ELSE ProfilingInfo(name, store_event_[1])

Minus(a, b) == IF a.ok /\ b.ok THEN Value(a.val - b.val) ELSE ClError

LoadTimeNanoSeconds == Minus(LoadProfilingInfo("end"), LoadProfilingInfo("start"))
ComputeTimeNanoSeconds == Minus(ComputeProfilingInfo("end"), ComputeProfilingInfo("start"))
StoreTimeNanoSeconds == Minus(StoreProfilingInfo("end"), StoreProfilingInfo("start"))

\* double(a) / b in IEEE 754 arithmetic: a quotient, an infinity or a NaN
DoubleDiv(a, b) ==
    IF b # 0 THEN [kind |-> "finite", num |-> a, den |-> b]
    ELSE IF a # 0 THEN [kind |-> "inf", num |-> a, den |-> 0]
    ELSE [kind |-> "nan", num |-> 0, den |-> 0]

RECURSIVE TotalSize(_)
TotalSize(S) ==
    IF S = {} THEN 0
    ELSE LET i == CHOOSE x \in S : TRUE IN buffer_table_[i] + TotalSize(S \ {i})

Throughput(total_size, time) ==
    IF time.ok THEN [ok |-> TRUE, val |-> DoubleDiv(total_size, time.val)]
    ELSE [ok |-> FALSE, val |-> DoubleDiv(0, 1)]

LoadThroughputGbps == Throughput(TotalSize(load_set), LoadTimeNanoSeconds)
StoreThroughputGbps == Throughput(TotalSize(store_set), StoreTimeNanoSeconds)

---------------------------------------------------------------------------
(* The pipeline's specification: a session bound to a device, driven in cycles
   WriteToDevice; Exec; ReadFromDevice; Finish, its buffer arguments set
   between the cycles *)

InitPipe ==
    /\ impl \in Classes
    /\ binary = Container(Signature, "XCLBIN_FLAT", TRUE, "hw", VaddKernels(0),
                          VaddTopology, VaddConnectivity)
    /\ env0 = Unset /\ env = Unset
    /\ pc = IF impl = "Instance" THEN "returned" ELSE "initialize"
    /\ err = "none" /\ emconfig = NotRun
    /\ LET r == Parse(impl, binary, Unset) IN
         /\ arg_table_ = r.arg_table
         /\ target_device_name = r.target_device_name
         /\ vendor_name = r.vendor_name
         /\ kernel_names = r.kernel_names
         /\ kernel_arg_counts = r.kernel_arg_counts
    /\ enumerated = TRUE
    /\ scan = [ScanInit EXCEPT !.nPlatforms = 1, !.nDevices = 1, !.seenTarget = TRUE,
                               !.firstOk = <<0, 0>>, !.last = <<0, 0>>]
    /\ device_ = <<0, 0>> /\ context_ = Handle(<<0, 0>>, TRUE)
    /\ cmd_ = Handle(<<0, 0>>, TRUE) /\ program_ = Handle(<<0, 0>>, TRUE)
    /\ kernel_ = Handle(<<0, 0>>, TRUE)
    /\ skipped = {}
    /\ PipeIdle

NextPipe ==
    \/ SetBufferArg
    \/ WriteToDevice
    \/ Exec
    \/ ReadFromDevice
    \/ Finish
    \/ DeviceStart
    \/ DeviceComplete

SpecPipe == InitPipe /\ [][NextPipe]_vars

---------------------------------------------------------------------------
(* Properties of the parser (SpecParse) *)

HeaderDisagrees ==
    \/ binary.mode = "XCLBIN_HW_EMU" /\ binary.target = "csim"
    \/ binary.mode = "XCLBIN_SW_EMU" /\ binary.target = "hw_em"

\* C3: when XCL_EMULATION_MODE is unset before parsing and the header mode and
\* the metadata target name different emulation variants, the mode in effect
\* after parsing is the one of the metadata target ("csim" -> sw_emu,
\* "hw_em" -> hw_emu), not the one of the header.
C3_MetadataModeWins ==
    (pc = "parsed" /\ env0 = Unset /\ HeaderDisagrees)
        => env = (IF binary.target = "csim" THEN "sw_emu" ELSE "hw_emu")

\* C4: a value of XCL_EMULATION_MODE set before construction is left unchanged
\* by the parser, for every header mode and metadata target; the parser changes
\* the variable only when it was unset.
C4_ExternalModeKept ==
    /\ env0 # Unset => env = env0
    /\ env # env0 => env0 = Unset

\* C4's case: the variable was set to sw_emu, header and metadata both name
\* hardware emulation, and the parse is over
C4_Witness ==
    /\ pc = "parsed" /\ env0 = "sw_emu" /\ env = "sw_emu"
    /\ binary.mode = "XCLBIN_HW_EMU" /\ binary.target = "hw_em"

Decls ==
    UNION {{<<k, j>> : j \in 1..Len(binary.kernels[k].args)}
           : k \in 1..Len(binary.kernels)}

Offset(k) == SumSeq([i \in 1..(k - 1) |-> Len(binary.kernels[i].args)])

\* C5: after parsing a well-formed container the argument table has exactly one
\* entry per declared <arg> of every kernel and no other entry, and the entry of
\* the j-th <arg> (0-based) of a kernel has index j + the kernel's offset,
\* offsets being assigned contiguously in declaration order.
C5_ArgTableMatchesDeclarations ==
    pc = "parsed" =>
        /\ Cardinality(DOMAIN arg_table_) = Cardinality(Decls)
        /\ \A d \in Decls :
             LET index == Offset(d[1]) + d[2] - 1 IN
             /\ index \in DOMAIN arg_table_
             /\ arg_table_[index].name = d
             /\ arg_table_[index].index = index

\* the connectivity edges that name argument a, by position in input order
EdgesOf(a) == {i \in DOMAIN binary.conn : binary.conn[i].arg_index = a}

\* the last edge, in input order, that names argument a
LastEdge(a) == CHOOSE i \in EdgesOf(a) : \A j \in EdgesOf(a) : j <= i

\* the name region k (0-based) of the memory topology supplies: its tag if the
\* region exists and is flagged used, no name otherwise
RegionName(k) ==
    IF (k + 1) \in DOMAIN binary.topo /\ binary.topo[k + 1].used
    THEN binary.topo[k + 1].tag
    ELSE ""

UsedNames == {binary.topo[i].tag : i \in {j \in DOMAIN binary.topo : binary.topo[j].used}}

\* C12: after Instance has parsed a container with memory-topology and
\* connectivity sections, every argument named by at least one connectivity edge
\* has an entry whose memory tag is the region name resolved for the last edge,
\* in input order, that names it; a region flagged unused never supplies a name
\* (every non-empty tag is the name of a used region); an argument with no edge
\* keeps an empty tag.
C12_LastEdgeWins ==
    (impl = "Instance" /\ pc = "parsed") =>
        /\ \A i \in DOMAIN binary.conn : binary.conn[i].arg_index \in DOMAIN arg_table_
        /\ \A a \in DOMAIN arg_table_ :
             /\ EdgesOf(a) # {} =>
                  arg_table_[a].tag = RegionName(binary.conn[LastEdge(a)].mem_data_index)
             /\ EdgesOf(a) = {} => arg_table_[a].tag = ""
             /\ arg_table_[a].tag # "" => arg_table_[a].tag \in UsedNames

\* C12's case: the topology has a region flagged unused, two edges name the
\* same argument and resolve differently, the first of them to a named region;
\* the argument carries the last edge's resolution, and another argument has no
\* edge and an empty tag
C12_Witness ==
    /\ impl = "Instance" /\ pc = "parsed"
    /\ \E r \in DOMAIN binary.topo : ~binary.topo[r].used
    /\ \E i, j \in DOMAIN binary.conn :
         /\ i < j /\ binary.conn[i].arg_index = binary.conn[j].arg_index
         /\ RegionName(binary.conn[i].mem_data_index) # ""
         /\ RegionName(binary.conn[i].mem_data_index) #
              RegionName(binary.conn[j].mem_data_index)
         /\ arg_table_[binary.conn[j].arg_index].tag =
              RegionName(binary.conn[j].mem_data_index)
    /\ \E b \in DOMAIN arg_table_ : EdgesOf(b) = {} /\ arg_table_[b].tag = ""

---------------------------------------------------------------------------
(* Properties of the construction (SpecCtor) *)

\* C2: if no platform has the vendor's name or no accelerator device of it has
\* the target device name, the construction fails (DeviceNotFound): the
\* constructor never returns normally with nothing bound.
C2_NoMatchFails ==
    ~(pc = "returned" /\ ~scan.seenTarget /\ ~kernel_.valid)

\* the first 8 bytes of the blob are not the signature (shorter blobs included)
BadSignature(bytes) ==
    \E i \in 1..MagicLen : i > Len(bytes) \/ bytes[i] # Signature[i]

\* C7: on a blob whose first 8 bytes are not the container signature the
\* construction fails with UnsupportedFormat, nothing else can happen to it, and
\* no platform or device is ever enumerated.
C7_BadMagicRejected ==
    BadSignature(binary.magic) =>
        /\ pc \in {"new", "failed"}
        /\ pc = "new" => ENABLED RejectFormat /\ ~ENABLED ParseContainer
        /\ pc = "failed" => err = "UnsupportedFormat"
        /\ ~enumerated
        /\ device_ = NoDevice /\ ~context_.valid

\* C7's case: a blob shorter than 8 bytes has been rejected
C7_Witness ==
    /\ pc = "failed" /\ err = "UnsupportedFormat"
    /\ Len(binary.magic) < MagicLen /\ Len(binary.magic) > 0
    /\ ~enumerated

\* device d comes before the scan's position
Passed(d) == d[1] < scan.pi \/ (d[1] = scan.pi /\ d[2] < scan.di)

\* C10: a name-matching device whose context creation reports "device not
\* available" is skipped, the scan going on with the next device and never
\* failing with that status; the scan stops at the first name-matching device
\* whose context creation succeeds, and the session's device, context, command
\* queue, program and kernel are all that device's, no later device examined.
C10_FirstAvailableBound ==
    /\ err # "CL_DEVICE_NOT_AVAILABLE"
    /\ \A d \in skipped : Passed(d)
    /\ scan.firstOk # NoDevice =>
         /\ pc \in {"returned", "failed"}
         /\ scan.last = scan.firstOk
         /\ scan.firstOk \notin skipped
    /\ (pc = "returned" /\ scan.firstOk # NoDevice) =>
         /\ device_ = scan.firstOk
         /\ context_ = Handle(scan.firstOk, TRUE)
         /\ cmd_ = Handle(scan.firstOk, TRUE)
         /\ program_ = Handle(scan.firstOk, TRUE)
         /\ kernel_ = Handle(scan.firstOk, TRUE)

\* C10's case: a device has been skipped and a later one is bound
C10_Witness ==
    /\ pc = "returned" /\ kernel_.valid
    /\ skipped # {}
    /\ device_ \notin skipped

\* C11: when the emulation mode is set after the parse and the emconfig.json
\* check / emconfigutil command reports failure (system() returns non-zero),
\* the construction aborts, and it does so before any platform is enumerated
\* and before any device is bound.
C11_EmconfigFailureAborts ==
    (emconfig.ran /\ emconfig.status # 0) =>
        /\ pc = "failed"
        /\ ~enumerated
        /\ device_ = NoDevice /\ ~context_.valid

---------------------------------------------------------------------------
(* Properties of the pipeline (SpecPipe) *)

BothSets == load_set # {} /\ store_set # {}

\* C1: in a cycle WriteToDevice; Exec; ReadFromDevice; Finish with non-empty
\* load and store sets on the out-of-order queue, the kernel never starts before
\* the load migration is complete and the store migration never starts before
\* the kernel is complete: compute start >= load end, store start >= compute end.
C1_PhasesOrdered ==
    (hostpc \in {"Computed", "Stored", "Done"} /\ BothSets) =>
        LET l == events[load_event_[1]]
            c == events[compute_event_[1]] IN
        /\ load_event_[1] \in c.deps
        /\ c.state # "queued" => (l.state = "complete" /\ c.start >= l.end)
        /\ hostpc \in {"Stored", "Done"} =>
             LET s == events[store_event_[1]] IN
             /\ compute_event_[1] \in s.deps
             /\ s.state # "queued" => (c.state = "complete" /\ s.start >= c.end)
        /\ hostpc = "Done" =>
             /\ ComputeProfilingInfo("start").ok /\ LoadProfilingInfo("end").ok
             /\ StoreProfilingInfo("start").ok /\ ComputeProfilingInfo("end").ok
             /\ ComputeProfilingInfo("start").val >= LoadProfilingInfo("end").val
             /\ StoreProfilingInfo("start").val >= ComputeProfilingInfo("end").val

\* C1's case: a cycle with both sets non-empty has finished
C1_Witness ==
    /\ hostpc = "Done" /\ BothSets
    /\ StoreProfilingInfo("start").val > LoadProfilingInfo("end").val

\* C8: after the second of two cycles with non-empty load and store sets the
\* load, compute and store events held are those the second cycle enqueued, none
\* is an event of the first cycle, and the second Exec waits on the second
\* cycle's load event; every Exec replaces the compute event held before.
C8_SecondCycleEvents ==
    /\ (hostpc = "Done" /\ runs >= 2 /\ BothSets) =>
         /\ Len(load_event_) = 1 /\ Len(compute_event_) = 1 /\ Len(store_event_) = 1
         /\ events[load_event_[1]].kind = "load" /\ events[load_event_[1]].run = runs
         /\ events[compute_event_[1]].kind = "compute"
         /\ events[compute_event_[1]].run = runs
         /\ events[store_event_[1]].kind = "store" /\ events[store_event_[1]].run = runs
         /\ events[compute_event_[1]].deps = {load_event_[1]}
         /\ events[store_event_[1]].deps = {compute_event_[1]}
    /\ hostpc \in {"Computed", "Stored", "Done"} =>
         /\ Len(compute_event_) = 1
         /\ events[compute_event_[1]].run = runs

\* C8's case: the second cycle has finished and both cycles enqueued a load, a
\* compute and a store command (each command advances the clock three times:
\* enqueued, started, completed)
C8_Witness ==
    /\ hostpc = "Done" /\ runs = 2 /\ BothSets
    /\ clock = 18

AllZero(info(_)) == \A name \in {"queued", "submit", "start", "end"} : info(name) = Value(0)

IsZero(x) == x.ok /\ x.val.kind = "finite" /\ x.val.num = 0

\* C6: a phase whose buffer set is empty, and which holds no completion event,
\* reports zero for every profiling query, a zero duration and a zero
\* throughput, none of them an error or an undefined value.
C6_EmptyPhaseReportsZero ==
    hostpc = "Done" =>
        /\ (load_set = {} /\ load_event_ = <<>>) =>
             /\ AllZero(LoadProfilingInfo)
             /\ LoadTimeNanoSeconds = Value(0)
             /\ IsZero(LoadThroughputGbps)
        /\ (store_set = {} /\ store_event_ = <<>>) =>
             /\ AllZero(StoreProfilingInfo)
             /\ StoreTimeNanoSeconds = Value(0)
             /\ IsZero(StoreThroughputGbps)

\* C9: after a WriteToDevice() called while the load set is empty the session
\* holds no load event, also when an earlier cycle captured one; the Exec() that
\* follows declares no load dependency and the load profiling queries return 0.
C9_EmptyLoadClearsEvent ==
    (hostpc \in {"Loaded", "Computed", "Stored", "Done"} /\ load_set = {}) =>
        /\ load_event_ = <<>>
        /\ AllZero(LoadProfilingInfo)
        /\ hostpc # "Loaded" => events[compute_event_[1]].deps = {}

=============================================================================
